---------------------------- MODULE Spec2Model ----------------------------
(***************************************************************************)
(* Model of agno/memory/v2/summarizer.py: the SessionSummarizer.           *)
(*                                                                         *)
(* One summarizer object (model, system_prompt, summary_updated) is shared *)
(* by NumCallers callers.  A caller invokes run (a thread: every statement *)
(* is a step of its own) or arun (a coroutine: everything up to the await  *)
(* of aresponse is one step, everything after it another).                 *)
(*                                                                         *)
(* Python values are records with a "type" field; Model objects live in a  *)
(* heap indexed by handle, so that copying and aliasing are different.     *)
(***************************************************************************)
EXTENDS Integers, Sequences, FiniteSets, TLC

\* ------------------------------------------------------------------ bounds
NumCallers == 2
MaxConvLen == 3

Callers == 1..NumCallers

\* ------------------------------------------------------------ Python values
None == [type |-> "NoneType"]
Str(s) == [type |-> "str", val |-> s]
List(items) == [type |-> "list", items |-> items]
Message(role, content) == [role |-> role, content |-> content]

\* The class SessionSummaryResponse, as a value (it is assigned to
\* response_format), and its instances.
SessionSummaryResponseClass == [type |-> "class", name |-> "SessionSummaryResponse"]
SessionSummaryResponse(summary, topics) ==
    [type |-> "SessionSummaryResponse", summary |-> summary, topics |-> topics]

\* agno.models.base.Model, as far as the summarizer reads and writes it.
Model(native, schema) ==
    [type |-> "Model",
     supports_native_structured_outputs |-> native,
     supports_json_schema_outputs |-> schema,
     response_format |-> None,
     structured_outputs |-> FALSE]

\* References to Model objects: handle 0 is the object the summarizer was
\* constructed with, handle i (i in Callers) the object invocation i owns.
SharedHandle == 0
Handles == {SharedHandle} \cup Callers
Ref(h) == [type |-> "ref", id |-> h]

\* ------------------------------------------------------------------ strings
StartsWith(s, p) == Len(s) >= Len(p) /\ SubSeq(s, 1, Len(p)) = p
EndsWith(s, p) == Len(s) >= Len(p) /\ SubSeq(s, Len(s) - Len(p) + 1, Len(s)) = p

RECURSIVE Join(_, _)
\* sep.join(strs)
Join(strs, sep) ==
    IF Len(strs) = 0 THEN ""
    ELSE IF Len(strs) = 1 THEN strs[1]
    ELSE strs[1] \o sep \o Join(Tail(strs), sep)

\* f"{content}"
Format(content) ==
    IF content = None THEN "None" ELSE content.val

\* The dedent("""...""") literal of get_system_message.
DefaultPrompt ==
    "Analyze the following conversation between a user and an assistant, and extract the following details:\n"
    \o "  - Summary (str): Provide a concise summary of the session, focusing on important information that would be helpful for future interactions.\n"
    \o "  - Topics (Optional[List[str]]): List the topics discussed in the session.\n"
    \o "Please ignore any frivolous information.\n"
    \o "Conversation:\n"

\* agno.utils.prompts.get_json_output_prompt(SessionSummaryResponse)
get_json_output_prompt ==
    "Provide your output as a JSON containing the following fields:\n"
    \o "<json_fields>\n[\"summary\", \"topics\"]\n</json_fields>"

UserPrompt == "Provide the summary of the conversation."

\* ------------------------------------------------------------ update_model
JsonObjectFormat == [type |-> "json_object"]
JsonSchemaFormat ==
    [type |-> "json_schema",
     json_schema |-> [name |-> "SessionSummaryResponse",
                      schema |-> "SessionSummaryResponse.model_json_schema()"]]

\* update_model(model): the object after the call.
update_model(m) ==
    IF m.supports_native_structured_outputs
    THEN [m EXCEPT !.response_format = SessionSummaryResponseClass,
                   !.structured_outputs = TRUE]
    ELSE IF m.supports_json_schema_outputs
    THEN [m EXCEPT !.response_format = JsonSchemaFormat]
    ELSE [m EXCEPT !.response_format = JsonObjectFormat]

\* ------------------------------------------------------ get_system_message
RECURSIVE conversation_messages(_)
\* The list built by the loop over the conversation.
conversation_messages(msgs) ==
    IF Len(msgs) = 0 THEN <<>>
    ELSE LET message == Head(msgs)
             rest == conversation_messages(Tail(msgs))
         IN IF message.role = "user"
            THEN <<"User: " \o Format(message.content)>> \o rest
            ELSE IF message.role \in {"assistant", "model"}
            THEN <<"Assistant: " \o Format(message.content)>> \o rest
            ELSE rest

\* Mutant: the formatting instructions never appended.
get_system_message_no_json(prompt, conv, m) ==
    IF prompt # None
    THEN Message("system", prompt.val)
    ELSE Message("system",
                 DefaultPrompt \o Join(conversation_messages(conv.items), "\n"))

RECURSIVE conversation_messages_no_model_role(_)
conversation_messages_no_model_role(msgs) ==
    IF Len(msgs) = 0 THEN <<>>
    ELSE LET message == Head(msgs)
             rest == conversation_messages_no_model_role(Tail(msgs))
         IN IF message.role = "user"
            THEN <<"User: " \o Format(message.content)>> \o rest
            ELSE IF message.role = "assistant"
            THEN <<"Assistant: " \o Format(message.content)>> \o rest
            ELSE rest

\* Mutant: the role "model" not rendered.
get_system_message_no_model_role(prompt, conv, m) ==
    IF prompt # None
    THEN Message("system", prompt.val)
    ELSE Message("system",
                 DefaultPrompt
                 \o Join(conversation_messages_no_model_role(conv.items), "\n")
                 \o (IF m.response_format = JsonObjectFormat
                     THEN "\n" \o get_json_output_prompt
                     ELSE ""))

get_system_message(prompt, conv, m) ==
    IF prompt # None
    THEN Message("system", prompt.val)
    ELSE Message("system",
                 DefaultPrompt
                 \o Join(conversation_messages(conv.items), "\n")
                 \o (IF m.response_format = JsonObjectFormat
                     THEN "\n" \o get_json_output_prompt
                     ELSE ""))


\* ------------------------------------------------- the model's responses
\* What response()/aresponse() can hand back: content is absent, a string
\* (empty, well-formed JSON, other text) or a non-string value; parsed is
\* absent, a SessionSummaryResponse or an object of another type (that one
\* with absent content and with well-formed JSON).
GoodJson == "{\"summary\": \"s\", \"topics\": [\"t\"]}"
BadText == "no json here"
NonStrContent == [type |-> "dict", val |-> "content"]
NativeParsed == SessionSummaryResponse("native", None)
OtherParsed == [type |-> "OtherModel", summary |-> "other", topics |-> None]

Contents == {None, Str(""), Str(GoodJson), Str(BadText), NonStrContent}
Parseds == {None, NativeParsed, OtherParsed}
ModelResponse(content, parsed) ==
    [type |-> "ModelResponse", content |-> content, parsed |-> parsed]
Responses ==
    {r \in {ModelResponse(c, p) : c \in Contents, p \in Parseds} :
        r.parsed = OtherParsed => r.content \in {None, Str(GoodJson)}}

\* response[i] when the model call raised instead of returning.
ModelError == [type |-> "Exception", content |-> None, parsed |-> None]

\* agno.utils.string.parse_response_model_str(content, SessionSummaryResponse):
\* the set of its possible outcomes on a text.  It returns the instance for
\* text of the expected shape, and otherwise returns None or raises.
parse_response_model_str(text) ==
    IF text = GoodJson
    THEN {[kind |-> "return", value |-> SessionSummaryResponse("s", List(<<"t">>))]}
    ELSE {[kind |-> "return", value |-> None], [kind |-> "raise", value |-> None]}

isinstance(v, t) == v.type = t

\* ------------------------------------------------------------------- state
VARIABLES
    model,              \* self.model: None or a reference to the shared Model
    system_prompt,      \* self.system_prompt: None or a string
    summary_updated,    \* self.summary_updated
    heap,               \* the Model objects, by handle (None: no object)
    pc,                 \* per caller: where its invocation stands
    conversation,       \* per caller: the argument of its invocation
    model_copy,         \* per caller: the local model_copy (a reference)
    messages_for_model, \* per caller: the local messages_for_model
    response,           \* per caller: the local response (or ModelError)
    calls,              \* per caller: calls made by its invocation
    outcome             \* per caller: how its invocation ended

vars == <<model, system_prompt, summary_updated, heap, pc, conversation,
          model_copy, messages_for_model, response, calls, outcome>>

NoCalls == [deepcopy |-> 0, model |-> 0, parser |-> 0]
Pending == [kind |-> "pending", value |-> None, parser |-> "not_called"]
Return(v, p) == [kind |-> "return", value |-> v, parser |-> p]
Raise(p) == [kind |-> "raise", value |-> None, parser |-> p]

\* SessionSummarizer.__init__: the constructor's arguments are free.
ModelConfigs == {Model(n, s) : n \in BOOLEAN, s \in BOOLEAN}
OverridePrompt == "Summarize the chat in one sentence."

Init ==
    /\ \E m \in ModelConfigs \cup {None} :
          /\ model = IF m = None THEN None ELSE Ref(SharedHandle)
          /\ heap = [h \in Handles |-> IF h = SharedHandle THEN m ELSE None]
    /\ system_prompt \in {None, Str(OverridePrompt)}
    /\ summary_updated = FALSE
    /\ pc = [i \in Callers |-> "idle"]
    /\ conversation = [i \in Callers |-> None]
    /\ model_copy = [i \in Callers |-> None]
    /\ messages_for_model = [i \in Callers |-> <<>>]
    /\ response = [i \in Callers |-> None]
    /\ calls = [i \in Callers |-> NoCalls]
    /\ outcome = [i \in Callers |-> Pending]

\* ------------------------------------------------------ pieces of run/arun
\* Mutant: the emptiness test forgotten.
no_conversation_only_none(conv) == conv = None

\* "conversation is None or len(conversation) == 0"
no_conversation(conv) == conv = None \/ Len(conv.items) = 0

\* The guard clauses at the head of run and arun.
returns_early(conv) == model = None \/ no_conversation(conv)

\* Mutant: no copy, the caller works on the object it was given.
deepcopy_alias(src, i) == src

\* deepcopy(self.model), called by invocation i on the object at handle
\* src: the handle of the object it returns, a fresh one owned by i.
deepcopy(src, i) == i

\* Mutant: the flag follows the parsed object instead of the content.
set_summary_updated_on_parsed(current, r) ==
    IF r.parsed # None THEN TRUE ELSE current

\* Mutant: the flag set after every model call.
set_summary_updated_always(current, r) == TRUE

\* Mutant: the flag assigned the test's value, so it can fall back.
set_summary_updated_assigned(current, r) == r.content # None

\* self.summary_updated after "if response.content is not None:
\* self.summary_updated = True".
set_summary_updated(current, r) ==
    IF r.content # None THEN TRUE ELSE current

\* Mutant: the pre-parsed object used only when there is no text.
takes_parsed_without_text(m, r) ==
    /\ m.supports_native_structured_outputs
    /\ r.parsed # None
    /\ isinstance(r.parsed, "SessionSummaryResponse")
    /\ r.content = None

\* Whether result extraction returns the response's pre-parsed object, for
\* response r of the model object m.
takes_parsed(m, r) ==
    /\ m.supports_native_structured_outputs
    /\ r.parsed # None
    /\ isinstance(r.parsed, "SessionSummaryResponse")

calls_parser(m, r) == ~takes_parsed(m, r) /\ isinstance(r.content, "str")

\* The outcomes the parser can have on r, when it is called.
parser_outcomes(m, r) ==
    IF calls_parser(m, r) THEN parse_response_model_str(r.content.val)
    ELSE {[kind |-> "not_called", value |-> None]}

\* Mutant: no try/except around the parser.
extract_uncaught(m, r, session_summary) ==
    IF takes_parsed(m, r)
    THEN Return(r.parsed, "not_called")
    ELSE IF isinstance(r.content, "str")
    THEN IF session_summary.kind = "raise"
         THEN Raise("raised")
         ELSE Return(session_summary.value, "returned")
    ELSE Return(None, "not_called")

\* Result extraction: what the invocation returns (or raises) for response
\* r of model object m, session_summary being the parser's outcome.
extract(m, r, session_summary) ==
    IF takes_parsed(m, r)
    THEN Return(r.parsed, "not_called")
    ELSE IF isinstance(r.content, "str")
    THEN IF session_summary.kind = "raise"
         THEN Return(None, "raised")            \* except Exception: warn
         ELSE IF session_summary.value # None
         THEN Return(session_summary.value, "returned")
         ELSE Return(None, "returned")          \* warn, fall through
    ELSE Return(None, "not_called")

\* Mutant: the model call wrapped in a handler that returns None.
model_call_failure_caught == Return(None, "not_called")

\* What the invocation does when response()/aresponse() raises: there is
\* no handler around the call.
model_call_failure == Raise("not_called")

\* The frame of a fresh invocation by caller i with argument conv.
Enter(i, conv) ==
    /\ pc[i] \in {"idle", "done"}
    /\ conversation' = [conversation EXCEPT ![i] = conv]
    /\ response' = [response EXCEPT ![i] = None]

\* -------------------------------------------------------------------- run
\* run, lines 95-103: the guard clauses.
RunBegin(i, conv) ==
    /\ Enter(i, conv)
    /\ calls' = [calls EXCEPT ![i] = NoCalls]
    /\ IF returns_early(conv)
       THEN /\ pc' = [pc EXCEPT ![i] = "done"]
            /\ outcome' = [outcome EXCEPT ![i] = Return(None, "not_called")]
       ELSE /\ pc' = [pc EXCEPT ![i] = "run_copy"]
            /\ outcome' = [outcome EXCEPT ![i] = Pending]
    /\ model_copy' = [model_copy EXCEPT ![i] = None]
    /\ messages_for_model' = [messages_for_model EXCEPT ![i] = <<>>]
    /\ UNCHANGED <<model, system_prompt, summary_updated, heap>>

\* run, line 105: model_copy = deepcopy(self.model)
RunCopy(i) ==
    /\ pc[i] = "run_copy"
    /\ LET h == deepcopy(model.id, i)
       IN /\ heap' = [heap EXCEPT ![h] = heap[model.id]]
          /\ model_copy' = [model_copy EXCEPT ![i] = Ref(h)]
    /\ calls' = [calls EXCEPT ![i].deepcopy = @ + 1]
    /\ pc' = [pc EXCEPT ![i] = "run_update"]
    /\ UNCHANGED <<model, system_prompt, summary_updated, conversation,
                   messages_for_model, response, outcome>>

\* run, line 106: self.update_model(model_copy)
RunUpdate(i) ==
    /\ pc[i] = "run_update"
    /\ heap' = [heap EXCEPT ![model_copy[i].id] = update_model(@)]
    /\ pc' = [pc EXCEPT ![i] = "run_build"]
    /\ UNCHANGED <<model, system_prompt, summary_updated, conversation,
                   model_copy, messages_for_model, response, calls, outcome>>

\* run, lines 109-113: messages_for_model
RunBuild(i) ==
    /\ pc[i] = "run_build"
    /\ messages_for_model' = [messages_for_model EXCEPT ![i] =
          <<get_system_message(system_prompt, conversation[i],
                               heap[model_copy[i].id]),
            Message("user", UserPrompt)>>]
    /\ pc' = [pc EXCEPT ![i] = "run_call"]
    /\ UNCHANGED <<model, system_prompt, summary_updated, heap, conversation,
                   model_copy, response, calls, outcome>>

\* run, line 116: response = model_copy.response(...) returns r
RunCall(i, r) ==
    /\ pc[i] = "run_call"
    /\ response' = [response EXCEPT ![i] = r]
    /\ calls' = [calls EXCEPT ![i].model = @ + 1]
    /\ pc' = [pc EXCEPT ![i] = "run_finish"]
    /\ UNCHANGED <<model, system_prompt, summary_updated, heap, conversation,
                   model_copy, messages_for_model, outcome>>

\* run, line 116: model_copy.response(...) raises
RunCallRaises(i) ==
    /\ pc[i] = "run_call"
    /\ response' = [response EXCEPT ![i] = ModelError]
    /\ calls' = [calls EXCEPT ![i].model = @ + 1]
    /\ outcome' = [outcome EXCEPT ![i] = model_call_failure]
    /\ pc' = [pc EXCEPT ![i] = "done"]
    /\ UNCHANGED <<model, system_prompt, summary_updated, heap, conversation,
                   model_copy, messages_for_model>>

\* run, lines 118-146: the flag and result extraction (locals only, apart
\* from the one write of self.summary_updated).
RunFinish(i) ==
    /\ pc[i] = "run_finish"
    /\ summary_updated' = set_summary_updated(summary_updated, response[i])
    /\ LET m == heap[model_copy[i].id]
       IN \E session_summary \in parser_outcomes(m, response[i]) :
             /\ outcome' = [outcome EXCEPT ![i] =
                               extract(m, response[i], session_summary)]
             /\ calls' = [calls EXCEPT ![i].parser =
                             IF calls_parser(m, response[i]) THEN @ + 1 ELSE @]
    /\ pc' = [pc EXCEPT ![i] = "done"]
    /\ UNCHANGED <<model, system_prompt, heap, conversation, model_copy,
                   messages_for_model, response>>

\* ------------------------------------------------------------------- arun
\* arun, lines 152-173, up to the await: the guard clauses, the copy, the
\* negotiation, the messages and the issue of aresponse, in one step of the
\* event loop.
ARunStart(i, conv) ==
    /\ Enter(i, conv)
    /\ IF returns_early(conv)
       THEN /\ pc' = [pc EXCEPT ![i] = "done"]
            /\ outcome' = [outcome EXCEPT ![i] = Return(None, "not_called")]
            /\ calls' = [calls EXCEPT ![i] = NoCalls]
            /\ heap' = heap
            /\ model_copy' = [model_copy EXCEPT ![i] = None]
            /\ messages_for_model' = [messages_for_model EXCEPT ![i] = <<>>]
       ELSE LET h == deepcopy(model.id, i)
                copied == [heap EXCEPT ![h] = heap[model.id]]
                updated == [copied EXCEPT ![h] = update_model(@)]
            IN /\ heap' = updated
               /\ model_copy' = [model_copy EXCEPT ![i] = Ref(h)]
               /\ messages_for_model' = [messages_for_model EXCEPT ![i] =
                     <<get_system_message(system_prompt, conv, updated[h]),
                       Message("user", UserPrompt)>>]
               /\ calls' = [calls EXCEPT ![i] =
                               [deepcopy |-> 1, model |-> 1, parser |-> 0]]
               /\ outcome' = [outcome EXCEPT ![i] = Pending]
               /\ pc' = [pc EXCEPT ![i] = "arun_await"]
    /\ UNCHANGED <<model, system_prompt, summary_updated>>

\* arun, lines 173-202: aresponse returns r and the coroutine runs to its
\* return.
ARunResume(i, r) ==
    /\ pc[i] = "arun_await"
    /\ response' = [response EXCEPT ![i] = r]
    /\ summary_updated' = set_summary_updated(summary_updated, r)
    /\ LET m == heap[model_copy[i].id]
       IN \E session_summary \in parser_outcomes(m, r) :
             /\ outcome' = [outcome EXCEPT ![i] = extract(m, r, session_summary)]
             /\ calls' = [calls EXCEPT ![i].parser =
                             IF calls_parser(m, r) THEN @ + 1 ELSE @]
    /\ pc' = [pc EXCEPT ![i] = "done"]
    /\ UNCHANGED <<model, system_prompt, heap, conversation, model_copy,
                   messages_for_model>>

\* arun, line 173: the awaited aresponse raises
ARunRaises(i) ==
    /\ pc[i] = "arun_await"
    /\ response' = [response EXCEPT ![i] = ModelError]
    /\ outcome' = [outcome EXCEPT ![i] = model_call_failure]
    /\ pc' = [pc EXCEPT ![i] = "done"]
    /\ UNCHANGED <<model, system_prompt, summary_updated, heap, conversation,
                   model_copy, messages_for_model, calls>>

\* ----------------------------------------------------------- specification
\* The conversations callers pass: absent, empty, and the three-turn one.
ExampleConversation ==
    List(<<Message("user", Str("hi")), Message("assistant", Str("hello")),
           Message("system", Str("ignored"))>>)
Conversations == {None, List(<<>>), ExampleConversation}

Next ==
    \E i \in Callers :
       \/ \E conv \in Conversations : RunBegin(i, conv)
       \/ RunCopy(i)
       \/ RunUpdate(i)
       \/ RunBuild(i)
       \/ \E r \in Responses : RunCall(i, r)
       \/ RunCallRaises(i)
       \/ RunFinish(i)
       \/ \E conv \in Conversations : ARunStart(i, conv)
       \/ \E r \in Responses : ARunResume(i, r)
       \/ ARunRaises(i)

Spec == Init /\ [][Next]_vars

\* Prompt construction on its own: one caller, in its first invocation,
\* takes run up to the built messages, or arun up to its await, on every
\* conversation of at most MaxConvLen turns (and the three-turn example).
Roles == {"user", "assistant", "model", "system"}
TurnContents == {Str("hi"), None}
Turns == {Message(role, content) : role \in Roles, content \in TurnContents}
BoundedConversations ==
    {ExampleConversation}
    \cup UNION {{List(t) : t \in [1..n -> Turns]} : n \in 1..MaxConvLen}

NextPrompt ==
    \/ \E conv \in BoundedConversations : pc[1] = "idle" /\ RunBegin(1, conv)
    \/ RunCopy(1)
    \/ RunUpdate(1)
    \/ RunBuild(1)
    \/ \E conv \in BoundedConversations : pc[1] = "idle" /\ ARunStart(1, conv)

SpecPrompt == Init /\ [][NextPrompt]_vars

\* ================================================================== claims
Absent(conv) == conv = None
Empty(conv) == conv.type = "list" /\ Len(conv.items) = 0
Completed(i) == pc[i] = "done"
Responded(i) == response[i].type = "ModelResponse"
Built(i) == Len(messages_for_model[i]) = 2
SystemMessage(i) == messages_for_model[i][1]
Configured == heap[SharedHandle]

\* C1: an invocation on a summarizer with no model, or with an absent or
\* empty conversation, returns None without raising, and makes no copy of
\* the model, no model call and no parser call.
C1_EarlyReturnNoModelCall ==
    \A i \in Callers :
       (pc[i] # "idle" /\ (model = None \/ Absent(conversation[i])
                           \/ Empty(conversation[i])))
       => /\ Completed(i)
          /\ outcome[i].kind = "return"
          /\ outcome[i].value = None
          /\ calls[i] = NoCalls
          /\ model_copy[i] = None
          /\ response[i] = None

C1_Witness ==
    /\ model # None
    /\ \E i \in Callers : Completed(i) /\ Empty(conversation[i])
                          /\ outcome[i].kind = "return"
    /\ \E i \in Callers : Completed(i) /\ Absent(conversation[i])
                          /\ outcome[i].kind = "return"

\* C2: when the configured model declares native structured outputs and the
\* response carries a pre-parsed SessionSummaryResponse, the invocation
\* returns that very object and the fallback parser is not called, whatever
\* the response's content.
C2_NativeParsedReturned ==
    \A i \in Callers :
       (/\ Completed(i)
        /\ Responded(i)
        /\ Configured.supports_native_structured_outputs
        /\ response[i].parsed.type = "SessionSummaryResponse")
       => /\ outcome[i].kind = "return"
          /\ outcome[i].value = response[i].parsed
          /\ calls[i].parser = 0

C2_Witness ==
    \E i \in Callers :
       /\ Completed(i)
       /\ Responded(i)
       /\ Configured.supports_native_structured_outputs
       /\ response[i].parsed = NativeParsed
       /\ response[i].content = Str(GoodJson)
       /\ outcome[i].value = NativeParsed

\* C3: when the fallback parser is called on the response's text and fails
\* (returns None or raises), the invocation returns None and does not
\* raise, and the invocation has made exactly one model call.
C3_ParseFailureReturnsAbsent ==
    \A i \in Callers :
       /\ calls[i].model <= 1
       /\ (/\ Completed(i)
           /\ Responded(i)
           /\ calls[i].parser > 0
           /\ response[i].content # Str(GoodJson))
          => /\ outcome[i].kind = "return"
             /\ outcome[i].value = None
             /\ calls[i].model = 1
             /\ calls[i].parser = 1

C3_Witness ==
    /\ \E i \in Callers : Completed(i) /\ outcome[i] = Return(None, "raised")
    /\ \E i \in Callers : Completed(i) /\ outcome[i] = Return(None, "returned")
                          /\ response[i].content = Str(BadText)

\* C4: after an invocation in which the model returned non-empty content,
\* summary_updated is true, also when parsing that content failed and the
\* invocation returned None.
C4_UpdatedAfterContent ==
    \A i \in Callers :
       (/\ Completed(i)
        /\ Responded(i)
        /\ response[i].content # None
        /\ response[i].content # Str(""))
       => summary_updated

C4_Witness ==
    \E i \in Callers :
       /\ Completed(i)
       /\ Responded(i)
       /\ response[i].content = Str(BadText)
       /\ outcome[i].kind = "return"
       /\ outcome[i].value = None
       /\ calls[i].parser = 1
       /\ summary_updated

\* The step in which caller i receives the model's response r' and goes on
\* past the flag.
PassesFlag(i) == pc[i] # "done" /\ pc'[i] = "done" /\ response'[i].type = "ModelResponse"

\* C5, as stated: summary_updated becomes true only in an invocation whose
\* model call returned non-empty textual content.
C5_OnlyAfterNonEmptyText ==
    [][(~summary_updated /\ summary_updated')
       => \E i \in Callers :
             /\ PassesFlag(i)
             /\ response'[i].content.type = "str"
             /\ response'[i].content # Str("")]_vars

\* C5, amended: summary_updated becomes true only in an invocation whose
\* model call returned content that is not None (an empty string or a
\* non-string value included); a summarizer whose model calls have all
\* returned None content, or raised, still has summary_updated false.
C5_OnlyAfterContentNotNone ==
    [][(~summary_updated /\ summary_updated')
       => \E i \in Callers :
             /\ PassesFlag(i)
             /\ response'[i].content # None]_vars

C5_Witness ==
    \E i \in Callers :
       /\ Completed(i)
       /\ Responded(i)
       /\ response[i].content = Str("")
       /\ summary_updated
       /\ \A j \in Callers \ {i} : pc[j] = "idle"

\* C6: under every interleaving, no step changes the configured (shared)
\* Model object, every invocation's model_copy refers to an object of its
\* own, and an invocation's object changes only in a step of that
\* invocation.
C6_NegotiationOnOwnCopy ==
    /\ [](\A i \in Callers : model_copy[i] \in {None, Ref(i)})
    /\ [][/\ heap'[SharedHandle] = heap[SharedHandle]
          /\ model' = model
          /\ \A i \in Callers : heap'[i] # heap[i] => pc'[i] # pc[i]]_vars

C6_Witness ==
    \E i, j \in Callers :
       /\ i # j
       /\ pc[i] \in {"run_build", "run_call", "run_finish", "arun_await"}
       /\ pc[j] = "run_update"
       /\ model_copy[i] = Ref(i)
       /\ model_copy[j] = Ref(j)
       /\ heap[i].response_format # None
       /\ heap[j].response_format = None
       /\ Configured.response_format = None
       /\ Configured.structured_outputs = FALSE

\* C7: the step in which the model call of an invocation raises ends the
\* invocation with that exception (it does not return) and leaves
\* summary_updated as it was; and summary_updated is written only in the
\* step of an invocation that follows a returned model call, so no step of
\* an invocation whose model call raises writes it.
C7_ModelFailurePropagates ==
    /\ [][\A i \in Callers :
             (response[i] # ModelError /\ response'[i] = ModelError)
             => /\ pc'[i] = "done"
                /\ outcome'[i].kind = "raise"
                /\ summary_updated' = summary_updated]_vars
    /\ [][summary_updated' # summary_updated
          => \E i \in Callers : PassesFlag(i)]_vars

C7_Witness ==
    \E i \in Callers :
       /\ Completed(i)
       /\ response[i] = ModelError
       /\ outcome[i].kind = "raise"
       /\ summary_updated

\* C8, as stated: whenever the working handle's negotiated format is the
\* generic JSON object, the built system message ends with the JSON
\* formatting instructions, with or without an override prompt.
C8_JsonInstructionsAlways ==
    \A i \in Callers :
       (Built(i) /\ heap[model_copy[i].id].response_format = JsonObjectFormat)
       => EndsWith(SystemMessage(i).content, "\n" \o get_json_output_prompt)

\* C8, amended: whenever the working handle's negotiated format is the
\* generic JSON object and no override prompt is configured, the built
\* system message ends with the JSON formatting instructions; with an
\* override prompt the message is the override, verbatim.
C8_JsonInstructionsWithoutOverride ==
    \A i \in Callers :
       (Built(i) /\ heap[model_copy[i].id].response_format = JsonObjectFormat)
       => /\ SystemMessage(i).role = "system"
          /\ IF system_prompt = None
             THEN EndsWith(SystemMessage(i).content,
                           "\n" \o get_json_output_prompt)
             ELSE SystemMessage(i).content = system_prompt.val

C8_Witness ==
    \E i \in Callers :
       /\ Built(i)
       /\ system_prompt = None
       /\ heap[model_copy[i].id].response_format = JsonObjectFormat
       /\ ~Configured.supports_native_structured_outputs
       /\ ~Configured.supports_json_schema_outputs

\* C9: once summary_updated is true, no step of any invocation makes it
\* false.
C9_FlagOneWay == [][summary_updated => summary_updated']_vars

C9_Witness ==
    /\ summary_updated
    /\ \E i \in Callers : Completed(i) /\ Responded(i)
                          /\ response[i].content = None
    /\ \E i \in Callers : Completed(i) /\ response[i] = ModelError

\* ---- the transcript of a built system message
RECURSIVE IndexOfNewline(_, _)
IndexOfNewline(s, k) ==
    IF k > Len(s) THEN 0
    ELSE IF SubSeq(s, k, k) = "\n" THEN k
    ELSE IndexOfNewline(s, k + 1)

RECURSIVE SplitLines(_)
SplitLines(s) ==
    LET k == IndexOfNewline(s, 1)
    IN IF k = 0 THEN <<s>>
       ELSE <<SubSeq(s, 1, k - 1)>> \o SplitLines(SubSeq(s, k + 1, Len(s)))

\* The text between the instruction block and the JSON instructions.
Transcript(i) ==
    LET content == SystemMessage(i).content
        suffix == "\n" \o get_json_output_prompt
        body == SubSeq(content, Len(DefaultPrompt) + 1, Len(content))
    IN IF EndsWith(body, suffix)
       THEN SubSeq(body, 1, Len(body) - Len(suffix))
       ELSE body

TranscriptLines(i) ==
    IF Transcript(i) = "" THEN <<>> ELSE SplitLines(Transcript(i))

Rendered(conv) ==
    {k \in 1..Len(conv.items) :
        conv.items[k].role \in {"user", "assistant", "model"}}

LineOf(turn) ==
    (IF turn.role = "user" THEN "User: " ELSE "Assistant: ")
    \o (IF turn.content = None THEN "None" ELSE turn.content.val)

\* C10: with no override prompt, the system message is the instruction
\* block followed by a transcript that has one line per turn of role user,
\* assistant or model, "User: <content>" or "Assistant: <content>", in the
\* order of the conversation, and no line for any other turn.
C10_TranscriptLines ==
    (Built(1) /\ system_prompt = None)
    => LET conv == conversation[1]
           lines == TranscriptLines(1)
       IN /\ StartsWith(SystemMessage(1).content, DefaultPrompt)
          /\ Len(lines) = Cardinality(Rendered(conv))
          /\ \A k \in Rendered(conv) :
                lines[Cardinality({j \in Rendered(conv) : j <= k})]
                   = LineOf(conv.items[k])
          /\ conv = ExampleConversation
             => lines = <<"User: hi", "Assistant: hello">>

C10_Witness ==
    /\ Built(1)
    /\ system_prompt = None
    /\ conversation[1] = ExampleConversation
    /\ TranscriptLines(1) = <<"User: hi", "Assistant: hello">>

=============================================================================
